---------------------------- MODULE Spec2Model ----------------------------
(***************************************************************************)
(* A model of mcp_math_server/server.py: the tools registered on the       *)
(* FastMCP server object, the /health route, and the module-level start    *)
(* time.  A float is modelled by the rational it holds (a record with a    *)
(* numerator n and a denominator d > 0, in lowest terms); a value that is  *)
(* not rational (a logarithm, the root of a non-square, a complex power)   *)
(* is a term naming the library function and its arguments.  Within the    *)
(* bounds used here every result is far inside the range of a double, so   *)
(* no operation overflows.                                                 *)
(***************************************************************************)
EXTENDS Integers, Sequences, FiniteSets, TLC

VARIABLES tools, server_start_time, clock, pending, log, probes

vars == <<tools, server_start_time, clock, pending, log, probes>>

-----------------------------------------------------------------------------
(* Bounds of the model. *)

\* Numerators and denominators of the float arguments a client sends.
MaxNum == 4
MaxDen == 2
\* Integer arguments of factorial and is_even lie in -MaxNum..MaxInt, those of
\* is_prime in -MaxNum..MaxPrime.
MaxInt == 9
MaxPrime == 130
\* Integer arguments of gcd and lcm lie in -MaxPair..MaxPair.
MaxPair == 6
\* Invocations the concurrent server accepts in one run.
MaxCalls == 2
\* Clock ticks per second, the last clock reading, the latest start time,
\* and the number of health probes in one run.
TicksPerSecond == 2
MaxClock == 6
MaxStart == 1
MaxProbes == 3

-----------------------------------------------------------------------------
(* Python values. *)

Abs(i) == IF i < 0 THEN -i ELSE i

\* math.gcd: Euclid's algorithm on the absolute values.
RECURSIVE math_gcd(_, _)
math_gcd(a, b) == IF b = 0 THEN Abs(a) ELSE math_gcd(b, a % Abs(b))

\* math.lcm: zero when either argument is zero, else |a * b| / gcd(a, b).
math_lcm(a, b) == IF a = 0 \/ b = 0 THEN 0 ELSE Abs(a * b) \div math_gcd(a, b)

\* The float holding the rational num/den (den # 0), in lowest terms.
Float(num, den) ==
    LET g == math_gcd(num, den)
        s == IF den < 0 THEN -1 ELSE 1
    IN  [kind |-> "float", n |-> (s * num) \div g, d |-> (s * den) \div g]

FloatOf(i) == Float(i, 1)

\* An int argument of a request.
IntArg(i) == [kind |-> "int", v |-> i]

IsInteger(x) == x.d = 1

\* An operation either returns a value or raises an exception.
Returns(v) == [raised |-> FALSE, value |-> v, exc |-> "none"]
Raises(e) == [raised |-> TRUE, value |-> FloatOf(0), exc |-> e]

float_add(a, b) == Float(a.n * b.d + b.n * a.d, a.d * b.d)
float_sub(a, b) == Float(a.n * b.d - b.n * a.d, a.d * b.d)
float_mul(a, b) == Float(a.n * b.n, a.d * b.d)

\* a / b on floats: ZeroDivisionError when b is zero.
float_truediv(a, b) ==
    IF b.n = 0 THEN Raises("ZeroDivisionError")
    ELSE Returns(Float(a.n * b.d, a.d * b.n))

\* floor of a float, as an integer.
float_floor(a) == a.n \div a.d

\* a % b on floats: ZeroDivisionError when b is zero, else a - b * floor(a / b),
\* whose sign is the divisor's.
float_mod(a, b) ==
    IF b.n = 0 THEN Raises("ZeroDivisionError")
    ELSE Returns(float_sub(a, float_mul(b, FloatOf(float_floor(Float(a.n * b.d, a.d * b.n))))))

RECURSIVE IntPow(_, _)
IntPow(b, k) == IF k = 0 THEN 1 ELSE b * IntPow(b, k - 1)

\* base ** exponent on floats.  A zero base with a negative exponent raises
\* ZeroDivisionError; a negative base with a fractional exponent gives a
\* complex number; a positive base with a fractional exponent gives a real
\* that is in general irrational.
float_pow(base, exponent) ==
    IF exponent.n = 0 THEN Returns(FloatOf(1))
    ELSE IF base.n = 0
         THEN IF exponent.n < 0 THEN Raises("ZeroDivisionError")
              ELSE Returns(FloatOf(0))
    ELSE IF IsInteger(exponent)
         THEN IF exponent.n > 0
              THEN Returns(Float(IntPow(base.n, exponent.n), IntPow(base.d, exponent.n)))
              ELSE Returns(Float(IntPow(base.d, -exponent.n), IntPow(base.n, -exponent.n)))
    ELSE IF base.n < 0
         THEN Returns([kind |-> "complex", fn |-> "pow", x |-> base, y |-> exponent])
    ELSE Returns([kind |-> "float", fn |-> "pow", x |-> base, y |-> exponent])

\* The largest r with r * r <= i, for i >= 0.
Isqrt(i) == CHOOSE r \in 0..i : r * r <= i /\ i < (r + 1) * (r + 1)

IsSquare(i) == Isqrt(i) * Isqrt(i) = i

\* math.sqrt: ValueError below zero, the exact root of a square, else a term.
math_sqrt(x) ==
    IF x.n < 0 THEN Raises("ValueError")
    ELSE IF IsSquare(x.n) /\ IsSquare(x.d) THEN Returns(Float(Isqrt(x.n), Isqrt(x.d)))
    ELSE Returns([kind |-> "float", fn |-> "sqrt", x |-> x])

\* math.log(x, base) = log(x) / log(base): ValueError when either logarithm
\* is undefined, ZeroDivisionError when log(base) is zero.
math_log(x, base) ==
    IF x.n <= 0 \/ base.n <= 0 THEN Raises("ValueError")
    ELSE IF base.n = base.d THEN Raises("ZeroDivisionError")
    ELSE Returns([kind |-> "float", fn |-> "log", x |-> x, y |-> base])

\* math.e, to eight decimal places.
math_e == [kind |-> "float", n |-> 271828183, d |-> 100000000]

\* math.factorial(n) for n >= 0: the product 1 * 2 * ... * n, accumulated
\* upwards; ValueError below zero.
RECURSIVE FactorialLoop(_, _, _)
FactorialLoop(acc, i, n) == IF i > n THEN acc ELSE FactorialLoop(acc * i, i + 1, n)

math_factorial(n) == IF n < 0 THEN Raises("ValueError") ELSE Returns(FactorialLoop(1, 1, n))

-----------------------------------------------------------------------------
(* Responses.  A tool returns a string built from a format and the values *)
(* interpolated into it; an exception that escapes a tool is a fault.      *)

Text(fmt, args) == [isError |-> FALSE, fmt |-> fmt, args |-> args]
Fault(exc) == [isError |-> TRUE, fmt |-> exc, args |-> <<>>]

\* f"Result: {result}", where computing result may raise.
Result(outcome) ==
    IF outcome.raised THEN Fault(outcome.exc) ELSE Text("Result: {}", <<outcome.value>>)

-----------------------------------------------------------------------------
(* The tools. *)

add(a, b) == Result(Returns(float_add(a, b)))

subtract(a, b) == Result(Returns(float_sub(a, b)))

multiply(a, b) == Result(Returns(float_mul(a, b)))

\* divide without its test of b.
divide_unguarded(a, b) == Result(float_truediv(a, b))

divide(a, b) ==
    IF b.n = 0 THEN Text("Error: Division by zero is not allowed", <<>>)
    ELSE Result(float_truediv(a, b))

power(base, exponent) == Result(float_pow(base, exponent))

sqrt(x) ==
    IF x.n < 0 THEN Text("Error: Cannot calculate square root of negative number", <<>>)
    ELSE Result(math_sqrt(x))

\* logarithm with base < 0 in place of base <= 0.
logarithm_zero_base(x, base) ==
    IF x.n <= 0 THEN Text("Error: Logarithm requires a positive number", <<>>)
    ELSE IF base.n < 0 \/ base.n = base.d
         THEN Text("Error: Logarithm base must be positive and not equal to 1", <<>>)
    ELSE Result(math_log(x, base))

logarithm(x, base) ==
    IF x.n <= 0 THEN Text("Error: Logarithm requires a positive number", <<>>)
    ELSE IF base.n <= 0 \/ base.n = base.d
         THEN Text("Error: Logarithm base must be positive and not equal to 1", <<>>)
    ELSE Result(math_log(x, base))

absolute(x) == Result(Returns(Float(Abs(x.n), x.d)))

modulo(a, b) ==
    IF b.n = 0 THEN Text("Error: Modulo by zero is not allowed", <<>>)
    ELSE Result(float_mod(a, b))

\* factorial with n <= 0 in place of n < 0.
factorial_from_one(n) ==
    IF n <= 0 THEN Text("Error: Factorial is only defined for non-negative integers", <<>>)
    ELSE Result(math_factorial(n))

factorial(n) ==
    IF n < 0 THEN Text("Error: Factorial is only defined for non-negative integers", <<>>)
    ELSE Result(math_factorial(n))

gcd(a, b) == Result(Returns(math_gcd(a, b)))

lcm(a, b) == Result(Returns(math_lcm(a, b)))

\* for i in range(first, stop, 2): if n % i == 0: return ...; return "is prime"
RECURSIVE TrialDivision(_, _, _)
TrialDivision(n, i, stop) ==
    IF i >= stop THEN Text("{} is prime", <<n>>)
    ELSE IF n % i = 0 THEN Text("{} is not prime (divisible by {})", <<n, i>>)
    ELSE TrialDivision(n, i + 2, stop)

\* int(math.sqrt(n)): the square root of a double is correctly rounded, so
\* for n in the range of the model this is the integer square root.
IntSqrt(n) == Isqrt(n)

\* is_prime with the range stopping at int(math.sqrt(n)), the + 1 left out.
is_prime_short_range(n) ==
    IF n < 2
    THEN Text("Error: {} is less than 2. Primality is only defined for integers >= 2", <<n>>)
    ELSE IF n = 2 THEN Text("{} is prime", <<n>>)
    ELSE IF n % 2 = 0 THEN Text("{} is not prime", <<n>>)
    ELSE TrialDivision(n, 3, IntSqrt(n))

\* is_prime with the range starting at 5.
is_prime_from_five(n) ==
    IF n < 2
    THEN Text("Error: {} is less than 2. Primality is only defined for integers >= 2", <<n>>)
    ELSE IF n = 2 THEN Text("{} is prime", <<n>>)
    ELSE IF n % 2 = 0 THEN Text("{} is not prime", <<n>>)
    ELSE TrialDivision(n, 5, IntSqrt(n) + 1)

is_prime(n) ==
    IF n < 2
    THEN Text("Error: {} is less than 2. Primality is only defined for integers >= 2", <<n>>)
    ELSE IF n = 2 THEN Text("{} is prime", <<n>>)
    ELSE IF n % 2 = 0 THEN Text("{} is not prime", <<n>>)
    ELSE TrialDivision(n, 3, IntSqrt(n) + 1)

is_even(n) == Text(IF n % 2 = 0 THEN "{} is even" ELSE "{} is odd", <<n>>)

\* The names the @mcp.tool() decorators register, in the order of the file.
ToolNames ==
    <<"add", "subtract", "multiply", "divide", "power", "sqrt", "logarithm",
      "absolute", "modulo", "factorial", "gcd", "lcm", "is_prime", "is_even">>

\* A call of the registered function with the arguments of the request; an
\* omitted base takes the default of the signature.
Call(req) ==
    LET arg == req.arguments IN
    CASE req.name = "add" -> add(arg.a, arg.b)
      [] req.name = "subtract" -> subtract(arg.a, arg.b)
      [] req.name = "multiply" -> multiply(arg.a, arg.b)
      [] req.name = "divide" -> divide(arg.a, arg.b)
      [] req.name = "power" -> power(arg.base, arg.exponent)
      [] req.name = "sqrt" -> sqrt(arg.x)
      [] req.name = "logarithm" ->
            logarithm(arg.x, IF "base" \in DOMAIN arg THEN arg.base ELSE math_e)
      [] req.name = "absolute" -> absolute(arg.x)
      [] req.name = "modulo" -> modulo(arg.a, arg.b)
      [] req.name = "factorial" -> factorial(arg.n.v)
      [] req.name = "gcd" -> gcd(arg.a.v, arg.b.v)
      [] req.name = "lcm" -> lcm(arg.a.v, arg.b.v)
      [] req.name = "is_prime" -> is_prime(arg.n.v)
      [] req.name = "is_even" -> is_even(arg.n.v)

-----------------------------------------------------------------------------
(* The requests a client sends. *)

FloatInputs == {Float(num, den) : num \in -MaxNum..MaxNum, den \in 1..MaxDen}
IntInputs == -MaxNum..MaxInt
PrimeInputs == -MaxNum..MaxPrime
PairInputs == -MaxPair..MaxPair

Request(name, arguments) == [name |-> name, arguments |-> arguments]

Requests ==
    {Request(nm, [a |-> x, b |-> y]) :
        nm \in {"add", "subtract", "multiply", "divide", "modulo"},
        x \in FloatInputs, y \in FloatInputs}
    \cup {Request("power", [base |-> x, exponent |-> y]) : x \in FloatInputs, y \in FloatInputs}
    \cup {Request(nm, [x |-> x]) : nm \in {"sqrt", "absolute", "logarithm"}, x \in FloatInputs}
    \cup {Request("logarithm", [x |-> x, base |-> y]) : x \in FloatInputs, y \in FloatInputs}
    \cup {Request(nm, [n |-> IntArg(i)]) : nm \in {"factorial", "is_even"}, i \in IntInputs}
    \cup {Request("is_prime", [n |-> IntArg(i)]) : i \in PrimeInputs}
    \cup {Request(nm, [a |-> IntArg(i), b |-> IntArg(j)]) : nm \in {"gcd", "lcm"}, i \in PairInputs, j \in PairInputs}

\* The calls of the test client, and one call of each tool it leaves out.
SampleRequests ==
    { Request("add", [a |-> FloatOf(5), b |-> FloatOf(3)]),
      Request("multiply", [a |-> FloatOf(4), b |-> FloatOf(7)]),
      Request("sqrt", [x |-> FloatOf(16)]),
      Request("is_prime", [n |-> IntArg(17)]),
      Request("divide", [a |-> FloatOf(10), b |-> FloatOf(0)]),
      Request("power", [base |-> FloatOf(2), exponent |-> FloatOf(10)]),
      Request("factorial", [n |-> IntArg(5)]),
      Request("gcd", [a |-> IntArg(48), b |-> IntArg(18)]),
      Request("subtract", [a |-> FloatOf(5), b |-> FloatOf(3)]),
      Request("logarithm", [x |-> FloatOf(8), base |-> FloatOf(2)]),
      Request("absolute", [x |-> FloatOf(-4)]),
      Request("modulo", [a |-> FloatOf(-7), b |-> FloatOf(2)]),
      Request("lcm", [a |-> IntArg(4), b |-> IntArg(6)]),
      Request("is_even", [n |-> IntArg(-3)]) }

-----------------------------------------------------------------------------
(* The server. *)

Range(f) == {f[i] : i \in DOMAIN f}

RemoveAt(q, i) == [j \in 1..(Len(q) - 1) |-> IF j < i THEN q[j] ELSE q[j + 1]]

\* int(x) of a number of ticks x taken as seconds: truncation towards zero.
WholeSeconds(ticks) ==
    IF ticks >= 0 THEN ticks \div TicksPerSecond ELSE -((-ticks) \div TicksPerSecond)

\* str(timedelta).split('.')[0]: days, then H:MM:SS, the fraction dropped
\* (the fraction of a non-negative timedelta is never negative).
TimedeltaStr(ticks) ==
    LET secs == ticks \div TicksPerSecond
    IN  [days |-> secs \div 86400,
         hours |-> (secs % 86400) \div 3600,
         minutes |-> (secs % 3600) \div 60,
         seconds |-> secs % 60]

\* After the module is loaded: every decorated function is registered, the
\* start time is the clock reading at load, nothing has been called.
Init ==
    /\ tools = Range(ToolNames)
    /\ server_start_time \in 0..MaxStart
    /\ clock = server_start_time
    /\ pending = <<>>
    /\ log = <<>>
    /\ probes = <<>>

\* Time passes.
Tick ==
    /\ clock < MaxClock
    /\ clock' = clock + 1
    /\ UNCHANGED <<tools, server_start_time, pending, log, probes>>

\* The transport hands a call of a registered tool to the server.
Receive(req) ==
    /\ req.name \in tools
    /\ Len(pending) + Len(log) < MaxCalls
    /\ pending' = Append(pending, req)
    /\ UNCHANGED <<tools, server_start_time, clock, log, probes>>

\* A worker runs the i-th call in flight and its response goes back.
Execute(i) ==
    /\ i \in DOMAIN pending
    /\ log' = Append(log, [request |-> pending[i], response |-> Call(pending[i])])
    /\ pending' = RemoveAt(pending, i)
    /\ UNCHANGED <<tools, server_start_time, clock, probes>>

\* health_check assigning the module-level start time.
health_check_resets_start ==
    /\ Len(probes) < MaxProbes
    /\ \E drift \in 0..1 :
         /\ clock + drift <= MaxClock
         /\ clock' = clock + drift
         /\ probes' = Append(probes,
              [at |-> clock,
               body |-> [status |-> "healthy",
                         server |-> "mcp-math-server",
                         uptime |-> TimedeltaStr(clock - server_start_time),
                         uptime_seconds |-> WholeSeconds(clock - server_start_time),
                         timestamp |-> clock + drift]])
         /\ server_start_time' = clock + drift
    /\ UNCHANGED <<tools, pending, log>>

\* health_check rounding the uptime up in place of int().
health_check_rounds_up ==
    /\ Len(probes) < MaxProbes
    /\ \E drift \in 0..1 :
         /\ clock + drift <= MaxClock
         /\ clock' = clock + drift
         /\ probes' = Append(probes,
              [at |-> clock,
               body |-> [status |-> "healthy",
                         server |-> "mcp-math-server",
                         uptime |-> TimedeltaStr(clock - server_start_time),
                         uptime_seconds |-> WholeSeconds(clock - server_start_time + TicksPerSecond - 1),
                         timestamp |-> clock + drift]])
    /\ UNCHANGED <<tools, server_start_time, pending, log>>

\* health_check leaving the server field out.
health_check_without_server ==
    /\ Len(probes) < MaxProbes
    /\ \E drift \in 0..1 :
         /\ clock + drift <= MaxClock
         /\ clock' = clock + drift
         /\ probes' = Append(probes,
              [at |-> clock,
               body |-> [status |-> "healthy",
                         uptime |-> TimedeltaStr(clock - server_start_time),
                         uptime_seconds |-> WholeSeconds(clock - server_start_time),
                         timestamp |-> clock + drift]])
    /\ UNCHANGED <<tools, server_start_time, pending, log>>

\* GET /health.  The clock is read twice, first for the uptime (at) and then
\* for the timestamp, and may advance by a tick in between.
health_check ==
    /\ Len(probes) < MaxProbes
    /\ \E drift \in 0..1 :
         /\ clock + drift <= MaxClock
         /\ clock' = clock + drift
         /\ probes' = Append(probes,
              [at |-> clock,
               body |-> [status |-> "healthy",
                         server |-> "mcp-math-server",
                         uptime |-> TimedeltaStr(clock - server_start_time),
                         uptime_seconds |-> WholeSeconds(clock - server_start_time),
                         timestamp |-> clock + drift]])
    /\ UNCHANGED <<tools, server_start_time, pending, log>>

\* The server under concurrent calls and probes.
Next ==
    \/ \E req \in SampleRequests : Receive(req)
    \/ \E i \in 1..MaxCalls : Execute(i)
    \/ health_check

Spec == Init /\ [][Next]_vars

\* One call of one tool: the request is in flight at the start.
InitTools ==
    /\ tools = Range(ToolNames)
    /\ server_start_time = 0
    /\ clock = 0
    /\ pending \in {<<req>> : req \in Requests}
    /\ log = <<>>
    /\ probes = <<>>

NextTools == Execute(1)

SpecTools == InitTools /\ [][NextTools]_vars

\* The health route alone, as time passes.
NextHealth ==
    \/ Tick
    \/ health_check

SpecHealth == Init /\ [][NextHealth]_vars

-----------------------------------------------------------------------------
(* Properties. *)

\* The completed calls of one tool.
CallsOf(name) == {i \in DOMAIN log : log[i].request.name = name}

NotPrimeFormats == {"{} is not prime", "{} is not prime (divisible by {})"}

\* n has no divisor strictly between 1 and n.
NoProperDivisor(n) == \A d \in 2..(n - 1) : n % d # 0

\* C1: for every n >= 2, is_prime(n) answers "is prime" exactly when n has no
\* divisor d with 1 < d < n, and otherwise answers "is not prime"; for every
\* n < 2 it answers with the domain error and gives no verdict.
IsPrimeMatchesReference ==
    \A i \in CallsOf("is_prime") :
        LET n == log[i].request.arguments.n.v
            r == log[i].response
        IN  /\ ~r.isError
            /\ IF n < 2
               THEN r.fmt = "Error: {} is less than 2. Primality is only defined for integers >= 2"
               ELSE /\ r.fmt \in NotPrimeFormats \cup {"{} is prime"}
                    /\ (r.fmt = "{} is prime") <=> NoProperDivisor(n)

\* 49 = 7 * 7, whose only divisor in the range is its last element, has been
\* found composite.
IsPrimeWitness ==
    \E i \in CallsOf("is_prime") :
        /\ log[i].request.arguments.n.v = 49
        /\ log[i].response.fmt \in NotPrimeFormats

\* C2, as claimed: whenever is_prime(n) reports that n >= 2 is not prime, the
\* response names a divisor d with 1 < d < n and n mod d = 0.
NotPrimeNamesDivisor ==
    \A i \in CallsOf("is_prime") :
        LET n == log[i].request.arguments.n.v
            r == log[i].response
        IN  (n >= 2 /\ r.fmt \in NotPrimeFormats) =>
                /\ Len(r.args) = 2
                /\ 1 < r.args[2] /\ r.args[2] < n
                /\ n % r.args[2] = 0

\* C2, amended: when is_prime(n) reports that an odd n is not prime, the
\* response names the first divisor found, the smallest d with 1 < d < n that
\* divides n; when it reports that an even n > 2 is not prime, the response
\* names no divisor.
OddNotPrimeNamesFirstDivisor ==
    \A i \in CallsOf("is_prime") :
        LET n == log[i].request.arguments.n.v
            r == log[i].response
        IN  (n >= 2 /\ ~NoProperDivisor(n)) =>
                IF n % 2 = 0
                THEN r.fmt = "{} is not prime" /\ r.args = <<n>>
                ELSE /\ r.fmt = "{} is not prime (divisible by {})"
                     /\ Len(r.args) = 2
                     /\ r.args[1] = n
                     /\ 1 < r.args[2] /\ r.args[2] < n
                     /\ n % r.args[2] = 0
                     /\ \A d \in 2..(r.args[2] - 1) : n % d # 0

\* 35 has been reported divisible by 5.
OddNotPrimeWitness ==
    \E i \in CallsOf("is_prime") :
        /\ log[i].request.arguments.n.v = 35
        /\ log[i].response.args = <<35, 5>>

NoToolRaises ==
    \A i \in DOMAIN log :
        /\ ~log[i].response.isError
        /\ log[i].request.name = "power" => log[i].response.fmt = "Result: {}"

\* C5: logarithm(x, base) answers with a domain error exactly when x <= 0 or
\* base <= 0 or base = 1, and with a result otherwise; with base omitted the
\* logarithm is taken to base e, and is rejected exactly when x <= 0.
LogarithmErrors ==
    {"Error: Logarithm requires a positive number",
     "Error: Logarithm base must be positive and not equal to 1"}

LogarithmDomain ==
    \A i \in CallsOf("logarithm") :
        LET arg == log[i].request.arguments
            r == log[i].response
            given == "base" \in DOMAIN arg
        IN  /\ ~r.isError
            /\ r.fmt \in LogarithmErrors \cup {"Result: {}"}
            /\ (r.fmt \in LogarithmErrors) <=>
                  \/ arg.x.n <= 0
                  \/ given /\ (arg.base.n <= 0 \/ arg.base = FloatOf(1))
            /\ (r.fmt = "Result: {}" /\ ~given) =>
                  r.args[1].fn = "log" /\ r.args[1].y = math_e

\* The logarithm of a positive number to base zero has been rejected.
LogarithmWitness ==
    \E i \in CallsOf("logarithm") :
        /\ "base" \in DOMAIN log[i].request.arguments
        /\ log[i].request.arguments.x.n > 0
        /\ log[i].request.arguments.base.n = 0
        /\ log[i].response.fmt = "Error: Logarithm base must be positive and not equal to 1"

\* n! by its recurrence.
RECURSIVE FactorialRecurrence(_)
FactorialRecurrence(n) == IF n = 0 THEN 1 ELSE n * FactorialRecurrence(n - 1)

\* C10: factorial(n) answers with a domain error for every n < 0 and with
\* exactly n! for every n >= 0 (0! = 1, n! = n * (n-1)!), and the value does
\* not decrease as n grows.
FactorialExact ==
    \A i \in CallsOf("factorial") :
        LET n == log[i].request.arguments.n.v
            r == log[i].response
        IN  /\ ~r.isError
            /\ IF n < 0
               THEN r.fmt = "Error: Factorial is only defined for non-negative integers"
               ELSE /\ r.fmt = "Result: {}"
                    /\ r.args = <<FactorialRecurrence(n)>>
                    /\ n >= 1 => /\ factorial(n - 1).fmt = "Result: {}"
                                 /\ r.args[1] >= factorial(n - 1).args[1]

\* factorial(5) has answered 120.
FactorialWitness ==
    \E i \in CallsOf("factorial") :
        /\ log[i].request.arguments.n.v = 5
        /\ log[i].response.args = <<120>>

\* Every probe so far reports the whole seconds between the start time and
\* its clock reading; a later probe never reports fewer seconds than an
\* earlier one, and two probes differ by the seconds between their readings,
\* up to truncation.
ProbesConsistent ==
    /\ \A j \in DOMAIN probes :
         LET u == probes[j].body.uptime_seconds
             elapsed == probes[j].at - server_start_time
         IN  u * TicksPerSecond <= elapsed /\ elapsed < (u + 1) * TicksPerSecond
    /\ \A i \in DOMAIN probes : \A j \in DOMAIN probes :
         i < j =>
            LET du == probes[j].body.uptime_seconds - probes[i].body.uptime_seconds
                dt == (probes[j].at - probes[i].at) \div TicksPerSecond
            IN  du >= 0 /\ dt <= du /\ du <= dt + 1

\* C6: no step changes the start time, and after every step the probes made
\* so far are consistent in the sense above.
UptimeNonDecreasing ==
    [][server_start_time' = server_start_time /\ ProbesConsistent']_vars

\* Two probes a fraction of a second more than a second apart report
\* different uptimes.
UptimeWitness ==
    \E i \in DOMAIN probes : \E j \in DOMAIN probes :
        /\ i < j
        /\ probes[j].body.uptime_seconds > probes[i].body.uptime_seconds
        /\ (probes[j].at - probes[i].at) % TicksPerSecond # 0
        /\ (probes[i].at - server_start_time) % TicksPerSecond # 0

SameRequestSameResponse ==
    \A i \in DOMAIN log : \A j \in DOMAIN log :
        log[i].request = log[j].request => log[i].response = log[j].response

=============================================================================
